---- MODULE Spec2Model ----
(***************************************************************************)
(* A model of the ardent scene graph (ardent-core: node.rs, scene.rs) and  *)
(* of the per-node geometry cache of its renderer (ardent-render:          *)
(* renderer.rs).  The host builds nodes with Node::new, edits them through *)
(* the Node setters, attaches them with Scene::add_node, removes subtrees  *)
(* with Scene::remove_node, walks the tree with Scene::traverse and draws  *)
(* it with Renderer::render.                                               *)
(***************************************************************************)
EXTENDS Integers, Sequences, FiniteSets, TLC

VARIABLES
    counter,    \* node.rs: the static COUNTER of generate_id
    held,       \* Node values the host has built and not yet handed to a Scene
    nodes,      \* Scene.nodes : HashMap<NodeId, Node>
    root,       \* Scene.root  : NodeId
    cache,      \* Renderer.cache : HashMap<NodeId, CachedMesh>
    mutated,    \* history: ids whose shape, style or transform was written since the last completed pass
    panicked,   \* a panic!() was raised and unwound the host
    attached,   \* history: the stored non-root ids, in the order add_node attached them
    pending,    \* per thread: the id fetch_add returned to a Node::new that has not finished
    issued,     \* history: every id generate_id returned, in the order of the fetch_add calls
    context,    \* GpuContext: config.width, config.height, size and what the surface was configured with
    last        \* history: the most recent operation, its arguments and what it produced

vars == <<counter, held, nodes, root, cache, mutated, panicked, attached, pending, issued, context, last>>

(***************************************************************************)
(* Bounds.                                                                 *)
(***************************************************************************)
MaxNodes == 5        \* ids issued by generate_id in the structural specification
MaxHeld == 2         \* Node values the host holds unattached at one time
MaxRenderNodes == 2  \* ids issued by generate_id in the rendering specification
MaxThreads == 2      \* threads that call Node::new concurrently
MaxSize == 3         \* largest width and height, in pixels, of the resize specification
MaxChildren == 2     \* length up to which Node::add_child is called on a stored node

Threads == 1..MaxThreads

Sizes == 0..MaxSize

NeverCreated == MaxNodes + 1   \* an id generate_id never issues within the bounds

Ids == 1..MaxNodes

(***************************************************************************)
(* Option<T>, HashMap and Vec helpers.                                     *)
(***************************************************************************)
None == <<>>
Some(x) == <<x>>

MapRemove(f, k) == [x \in DOMAIN f \ {k} |-> f[x]]
MapInsert(f, k, v) == [x \in DOMAIN f \cup {k} |-> IF x = k THEN v ELSE f[x]]
EmptyMap == [x \in {} |-> 0]

Range(s) == {s[i] : i \in 1..Len(s)}
Count(s, x) == Cardinality({i \in 1..Len(s) : s[i] = x})

(***************************************************************************)
(* Value types: transform.rs, style.rs, shape.rs.                          *)
(***************************************************************************)
TransformDefault == [translate |-> <<0, 0>>, scale |-> <<1, 1>>, rotate |-> 0]
\* frame.rs: translate = ((800 - 200) / 2, (600 - 100) / 2)
TransformCentered == [translate |-> <<300, 250>>, scale |-> <<1, 1>>, rotate |-> 0]
Transforms == {TransformDefault, TransformCentered}

StyleDefault == [fill |-> None, stroke |-> None]
\* frame.rs: Fill { color: Color::rgb(0.2, 0.5, 0.8), gradient: None }, in tenths
StyleFilled == [fill |-> Some([color |-> <<2, 5, 8, 10>>, gradient |-> None]), stroke |-> None]
Styles == {StyleDefault, StyleFilled}

\* event.rs: EventHandler = Box<dyn Fn(Event) + Send + Sync>, two distinct closures
EventHandlers == {"handler_a", "handler_b"}

Rect(w, h) == [kind |-> "Rect", width |-> w, height |-> h]
Shapes == {Rect(200, 100), Rect(50, 50)}

(***************************************************************************)
(* node.rs                                                                 *)
(***************************************************************************)
fetch_add_without_store(c) == [id |-> c, counter |-> c]

\* COUNTER.fetch_add(1, Ordering::Relaxed): one atomic read-modify-write that
\* returns the value read and stores that value plus one
fetch_add(c) == [id |-> c, counter |-> c + 1]

NodeNew(id) ==
    [id |-> id, parent |-> None, children |-> <<>>, transform |-> TransformDefault,
     shape |-> None, style |-> StyleDefault, on_event |-> None, dirty |-> TRUE]

set_parent(node, parent) == [node EXCEPT !.parent = Some(parent)]

add_child_in_front(node, child) == [node EXCEPT !.children = <<child>> \o @]

add_child(node, child) == [node EXCEPT !.children = Append(@, child)]

remove_child_keep(node, child) == node

remove_child_drop_last(node, child) ==
    [node EXCEPT !.children = SubSeq(@, 1, Len(@) - 1)]

remove_child(node, child) ==
    [node EXCEPT !.children = SelectSeq(@, LAMBDA id : id # child)]

\* *node.transform_mut() = transform (a write through the &mut Transform)
transform_mut(node, transform) == [node EXCEPT !.transform = transform]

set_shape(node, shape) == [node EXCEPT !.shape = Some(shape)]

clear_shape(node) == [node EXCEPT !.shape = None]

\* *node.style_mut() = style (a write through the &mut Style)
style_mut(node, style) == [node EXCEPT !.style = style]

set_event_handler_marking_dirty(node, handler) ==
    [node EXCEPT !.on_event = Some(handler), !.dirty = TRUE]

set_event_handler(node, handler) == [node EXCEPT !.on_event = Some(handler)]

clear_event_handler(node) == [node EXCEPT !.on_event = None]

mark_dirty(node) == [node EXCEPT !.dirty = TRUE]

clear_dirty(node) == [node EXCEPT !.dirty = FALSE]

(***************************************************************************)
(* scene.rs: remove_node and traverse, as the recursions of the source.    *)
(***************************************************************************)
RECURSIVE remove_node(_, _)
RECURSIVE remove_children(_, _, _)

remove_children_skip_last(ns, children, i) ==
    IF i >= Len(children) THEN ns
    ELSE remove_children(remove_node(ns, children[i]), children, i + 1)

\* for child_id in node.children() { self.remove_node(*child_id); }
remove_children(ns, children, i) ==
    IF i > Len(children) THEN ns
    ELSE remove_children(remove_node(ns, children[i]), children, i + 1)

remove_node_shallow(ns, node_id) ==
    IF node_id \notin DOMAIN ns THEN ns
    ELSE LET node == ns[node_id]
             ns1 == MapRemove(ns, node_id)
         IN  IF node.parent # None /\ node.parent[1] \in DOMAIN ns1
             THEN [ns1 EXCEPT ![node.parent[1]] = remove_child(@, node_id)]
             ELSE ns1

remove_node_below_root(ns, node_id) ==
    IF node_id \notin DOMAIN ns \/ ns[node_id].parent = None THEN ns
    ELSE LET node == ns[node_id]
             ns1 == MapRemove(ns, node_id)
             ns2 == IF node.parent[1] \in DOMAIN ns1
                    THEN [ns1 EXCEPT ![node.parent[1]] = remove_child(@, node_id)]
                    ELSE ns1
         IN  remove_children(ns2, node.children, 1)

remove_node(ns, node_id) ==
    IF node_id \notin DOMAIN ns THEN ns
    ELSE LET node == ns[node_id]
             ns1 == MapRemove(ns, node_id)
             ns2 == IF node.parent # None /\ node.parent[1] \in DOMAIN ns1
                    THEN [ns1 EXCEPT ![node.parent[1]] = remove_child(@, node_id)]
                    ELSE ns1
         IN  remove_children(ns2, node.children, 1)

RECURSIVE recurse(_, _)
RECURSIVE recurse_children(_, _, _)

\* for &child_id in node.children() { recurse(scene, child_id, callback); }
recurse_children(ns, children, i) ==
    IF i > Len(children) THEN <<>>
    ELSE recurse(ns, children[i]) \o recurse_children(ns, children, i + 1)

recurse_reporting_missing(ns, node_id) ==
    IF node_id \in DOMAIN ns
    THEN <<node_id>> \o recurse_children(ns, ns[node_id].children, 1)
    ELSE <<node_id>>

recurse_postorder(ns, node_id) ==
    IF node_id \in DOMAIN ns
    THEN recurse_children(ns, ns[node_id].children, 1) \o <<node_id>>
    ELSE <<>>

\* the ids handed to the callback, in call order
recurse(ns, node_id) ==
    IF node_id \in DOMAIN ns
    THEN <<node_id>> \o recurse_children(ns, ns[node_id].children, 1)
    ELSE <<>>

\* the closures handed to traverse_mut: none of them writes parent or children
Visitors == {"clear_dirty", "restyle"}

\* callback(node); "restyle" writes what frame.rs writes to its node
callback(visitor, node) ==
    CASE visitor = "clear_dirty" -> clear_dirty(node)
      [] visitor = "restyle" ->
            mark_dirty(style_mut(transform_mut(set_shape(node, Rect(200, 100)),
                                               TransformCentered),
                                 StyleFilled))

RECURSIVE recurse_mut(_, _, _)
RECURSIVE recurse_mut_children(_, _, _, _)

\* for child_id in children { recurse(scene, child_id, callback); }
recurse_mut_children(acc, children, i, visitor) ==
    IF i > Len(children) THEN acc
    ELSE recurse_mut_children(recurse_mut(acc, children[i], visitor),
                              children, i + 1, visitor)

recurse_mut_on_copy(acc, node_id, visitor) ==
    IF node_id \in DOMAIN acc.ns
    THEN recurse_mut_children([acc EXCEPT !.visited = Append(@, node_id)],
                              acc.ns[node_id].children, 1, visitor)
    ELSE acc

\* acc.ns: scene.nodes; acc.visited: the ids handed to the callback, in call
\* order.  The callback runs on the stored node (get_node_mut) before the
\* children list is copied.
recurse_mut(acc, node_id, visitor) ==
    IF node_id \in DOMAIN acc.ns
    THEN LET node == callback(visitor, acc.ns[node_id])
             children == node.children
         IN  recurse_mut_children([ns |-> [acc.ns EXCEPT ![node_id] = node],
                                   visited |-> Append(acc.visited, node_id)],
                                  children, 1, visitor)
    ELSE acc

\* let root = self.root; recurse(self, root, &mut callback);
traverse_mut(ns, r, visitor) == recurse_mut([ns |-> ns, visited |-> <<>>], r, visitor)

(***************************************************************************)
(* scene.rs: the call stacks of the three recursions.  Each operator below *)
(* is the recursion of the source with the number of nested frames carried *)
(* along: frame is the number of frames of the recursion on the stack      *)
(* while the call runs, acc.deepest the largest one seen, acc.calls the    *)
(* number of calls made.  A call that would be frame acc.limit + 1 is not  *)
(* followed (acc.cut): no recursion over a finite tree gets there.         *)
(***************************************************************************)
Max(a, b) == IF a >= b THEN a ELSE b

FrameLimit(ns) == Cardinality(DOMAIN ns) + 2

\* the bookkeeping before the outermost call on the scene ns
Stack(ns) == [ns |-> ns, limit |-> FrameLimit(ns), deepest |-> 0, calls |-> 0, cut |-> FALSE]

RECURSIVE recurse_stack(_, _, _, _)
RECURSIVE recurse_children_stack(_, _, _, _, _)

\* for &child_id in node.children() { recurse(scene, child_id, callback); }
recurse_children_stack(acc, ns, children, i, frame) ==
    IF i > Len(children) THEN acc
    ELSE recurse_children_stack(recurse_stack(acc, ns, children[i], frame),
                                ns, children, i + 1, frame)

recurse_stack_revisiting(acc, ns, node_id, frame) ==
    IF frame > acc.limit THEN [acc EXCEPT !.cut = TRUE]
    ELSE LET acc1 == [acc EXCEPT !.deepest = Max(@, frame), !.calls = @ + 1]
         IN  IF node_id \in DOMAIN ns
             THEN recurse_children_stack(acc1, ns, ns[node_id].children \o <<node_id>>,
                                         1, frame + 1)
             ELSE acc1

\* Scene::traverse::recurse
recurse_stack(acc, ns, node_id, frame) ==
    IF frame > acc.limit THEN [acc EXCEPT !.cut = TRUE]
    ELSE LET acc1 == [acc EXCEPT !.deepest = Max(@, frame), !.calls = @ + 1]
         IN  IF node_id \in DOMAIN ns
             THEN recurse_children_stack(acc1, ns, ns[node_id].children, 1, frame + 1)
             ELSE acc1

RECURSIVE recurse_mut_stack(_, _, _, _)
RECURSIVE recurse_mut_children_stack(_, _, _, _, _)

\* for child_id in children { recurse(scene, child_id, callback); }
recurse_mut_children_stack(acc, children, i, visitor, frame) ==
    IF i > Len(children) THEN acc
    ELSE recurse_mut_children_stack(recurse_mut_stack(acc, children[i], visitor, frame),
                                    children, i + 1, visitor, frame)

\* Scene::traverse_mut::recurse; acc.ns: scene.nodes
recurse_mut_stack(acc, node_id, visitor, frame) ==
    IF frame > acc.limit THEN [acc EXCEPT !.cut = TRUE]
    ELSE LET acc1 == [acc EXCEPT !.deepest = Max(@, frame), !.calls = @ + 1]
         IN  IF node_id \in DOMAIN acc.ns
             THEN LET node == callback(visitor, acc.ns[node_id])
                  IN  recurse_mut_children_stack([acc1 EXCEPT !.ns[node_id] = node],
                                                 node.children, 1, visitor, frame + 1)
             ELSE acc1

RECURSIVE remove_node_stack(_, _, _)
RECURSIVE remove_children_stack(_, _, _, _)

\* for child_id in node.children() { self.remove_node(*child_id); }
remove_children_stack(acc, children, i, frame) ==
    IF i > Len(children) THEN acc
    ELSE remove_children_stack(remove_node_stack(acc, children[i], frame),
                               children, i + 1, frame)

\* Scene::remove_node; acc.ns: scene.nodes
remove_node_stack(acc, node_id, frame) ==
    IF frame > acc.limit THEN [acc EXCEPT !.cut = TRUE]
    ELSE LET acc1 == [acc EXCEPT !.deepest = Max(@, frame), !.calls = @ + 1]
         IN  IF node_id \notin DOMAIN acc.ns THEN acc1
             ELSE LET node == acc.ns[node_id]
                      ns1 == MapRemove(acc.ns, node_id)
                      ns2 == IF node.parent # None /\ node.parent[1] \in DOMAIN ns1
                             THEN [ns1 EXCEPT ![node.parent[1]] = remove_child(@, node_id)]
                             ELSE ns1
                  IN  remove_children_stack([acc1 EXCEPT !.ns = ns2],
                                            node.children, 1, frame + 1)

(***************************************************************************)
(* renderer.rs, tesselate/rect.rs: the per-node cache refresh of           *)
(* draw_scene.                                                             *)
(***************************************************************************)
\* impl Tesselate for Rect: the closed path (0,0) (w,0) (w,h) (0,h)
path(rect) ==
    << <<0, 0>>, <<rect.width, 0>>, <<rect.width, rect.height>>, <<0, rect.height>> >>

\* Tesselate::tesselate: let _ = tessellator.tessellate_path(&self.path(), ..).
\* ok: tessellate_path returned Ok.  On Err the result is discarded and the
\* geometry buffers hold what the tessellator left in them: no vertex.
tesselate(rect, ok) == IF ok THEN path(rect) ELSE <<>>

\* match shape { Shape::Rect(rect) => rect.tesselate(..) }; geometry.vertices
tessellate_shape(shape, ok) ==
    CASE shape.kind = "Rect" -> tesselate(shape, ok)

\* CachedMesh { vertex_buffer: VertexBuffer::from_vertices(device, &vertices) }
CachedMesh(vertices) == [vertex_buffer |-> vertices]

needs_refresh_always(node, c) == TRUE

needs_refresh_never(node, c) == FALSE

\* node.is_dirty() || !self.cache.contains_key(&id)
needs_refresh(node, c) == node.dirty \/ node.id \notin DOMAIN c

visit_composing_transform(acc, node) ==
    IF node.shape = None THEN acc
    ELSE LET id == node.id
             ok == id \notin acc.failing
             local == tessellate_shape(node.shape[1], ok)
             moved == [i \in 1..Len(local) |->
                          <<local[i][1] + node.transform.translate[1],
                            local[i][2] + node.transform.translate[2]>>]
             acc1 == IF needs_refresh(node, acc.cache)
                     THEN [acc EXCEPT
                             !.cache = MapInsert(@, id, CachedMesh(moved)),
                             !.tessellated = Append(@, id),
                             !.failed = IF ok THEN @ ELSE @ \cup {id}]
                     ELSE acc
         IN  [acc1 EXCEPT !.draw_list = Append(@, id)]

\* the closure handed to scene.traverse, applied to one node;
\* acc.failing: the ids for whose shape tessellate_path returns Err in this pass
visit(acc, node) ==
    IF node.shape = None THEN acc
    ELSE LET id == node.id
             ok == id \notin acc.failing
             acc1 == IF needs_refresh(node, acc.cache)
                     THEN [acc EXCEPT
                             !.cache = MapInsert(@, id,
                                         CachedMesh(tessellate_shape(node.shape[1], ok))),
                             !.tessellated = Append(@, id),
                             !.failed = IF ok THEN @ ELSE @ \cup {id}]
                     ELSE acc
         IN  [acc1 EXCEPT !.draw_list = Append(@, id)]

RECURSIVE visit_all(_, _, _, _)
visit_all(acc, ns, order, i) ==
    IF i > Len(order) THEN acc
    ELSE visit_all(visit(acc, ns[order[i]]), ns, order, i + 1)

RECURSIVE draw_calls_reversed(_, _, _)
draw_calls_reversed(c, draw_list, i) ==
    IF i > Len(draw_list) THEN <<>>
    ELSE draw_calls_reversed(c, draw_list, i + 1) \o
         (IF draw_list[i] \in DOMAIN c
          THEN <<[id |-> draw_list[i], vertex_buffer |-> c[draw_list[i]].vertex_buffer]>>
          ELSE <<>>)

RECURSIVE draw_calls(_, _, _)
\* for id in draw_list { if let Some(cached) = self.cache.get(&id) { draw } }
draw_calls(c, draw_list, i) ==
    IF i > Len(draw_list) THEN <<>>
    ELSE (IF draw_list[i] \in DOMAIN c
          THEN <<[id |-> draw_list[i], vertex_buffer |-> c[draw_list[i]].vertex_buffer]>>
          ELSE <<>>) \o draw_calls(c, draw_list, i + 1)

draw_scene(ns, r, c, failing) ==
    LET acc == visit_all([cache |-> c, tessellated |-> <<>>, draw_list |-> <<>>,
                          failing |-> failing, failed |-> {}],
                         ns, recurse(ns, r), 1)
    IN  [result |-> "ok", cache |-> acc.cache, tessellated |-> acc.tessellated,
         failed |-> acc.failed, draw_list |-> acc.draw_list,
         draws |-> draw_calls(acc.cache, acc.draw_list, 1)]

render_without_frame_check(ns, r, c, acquired, failing) == draw_scene(ns, r, c, failing)

\* Renderer::render; acquired: context.surface.get_current_texture() returned Ok
render(ns, r, c, acquired, failing) ==
    IF acquired
    THEN draw_scene(ns, r, c, failing)
    ELSE [result |-> "surface_error", cache |-> c, tessellated |-> <<>>,
          failed |-> {}, draw_list |-> <<>>, draws |-> <<>>]

(***************************************************************************)
(* gpu/context.rs                                                          *)
(***************************************************************************)
\* GpuContext::new on a window of inner size (width, height): config comes
\* from get_default_config(&adapter, width, height), the surface is configured
\* with it, size: (size.width, size.height)
ContextNew(width, height) ==
    [config |-> [width |-> width, height |-> height],
     size |-> <<width, height>>,
     surface |-> [width |-> width, height |-> height]]

resize_unguarded(ctx, width, height) ==
    [context |-> [ctx EXCEPT !.config.width = width,
                             !.config.height = height,
                             !.size = <<width, height>>,
                             !.surface = [width |-> width, height |-> height]],
     configured |-> TRUE]

\* GpuContext::resize; surface.configure(&device, &config) hands the surface
\* the config as just written.  configured: surface.configure was called
resize(ctx, width, height) ==
    IF width > 0 /\ height > 0
    THEN LET ctx1 == [ctx EXCEPT !.config.width = width,
                                 !.config.height = height,
                                 !.size = <<width, height>>]
         IN  [context |-> [ctx1 EXCEPT !.surface = ctx1.config], configured |-> TRUE]
    ELSE [context |-> ctx, configured |-> FALSE]

(***************************************************************************)
(* History record of the most recent operation.                            *)
(***************************************************************************)
Op(op, id, parent, result) ==
    [op |-> op, id |-> id, parent |-> parent, result |-> result,
     removed |-> {}, visited |-> <<>>, tessellated |-> <<>>, failed |-> {},
     draw_list |-> <<>>, draws |-> <<>>]

(***************************************************************************)
(* Initial state: Scene::new() has run (it draws the root's id from        *)
(* generate_id) and Renderer::new() has built an empty cache.              *)
(***************************************************************************)
Init ==
    /\ counter = 2
    /\ held = EmptyMap
    /\ nodes = MapInsert(EmptyMap, 1, NodeNew(1))
    /\ root = 1
    /\ cache = EmptyMap
    /\ mutated = {}
    /\ panicked = FALSE
    /\ attached = <<>>
    /\ pending = [t \in Threads |-> None]
    /\ issued = <<1>>
    /\ context = ContextNew(800, 600)
    /\ last = Op("Scene::new", 1, 0, "ok")

\* the same, on a window of any inner size: a minimised window has size 0
InitResize ==
    /\ counter = 2
    /\ held = EmptyMap
    /\ nodes = MapInsert(EmptyMap, 1, NodeNew(1))
    /\ root = 1
    /\ cache = EmptyMap
    /\ mutated = {}
    /\ panicked = FALSE
    /\ attached = <<>>
    /\ pending = [t \in Threads |-> None]
    /\ issued = <<1>>
    /\ \E width \in Sizes, height \in Sizes : context = ContextNew(width, height)
    /\ last = Op("Scene::new", 1, 0, "ok")

(***************************************************************************)
(* Host operations.                                                        *)
(***************************************************************************)
\* let node = Node::new();
NewNode(limit) ==
    /\ ~panicked
    /\ counter <= limit
    /\ Cardinality(DOMAIN held) < MaxHeld
    /\ counter' = fetch_add(counter).counter
    /\ held' = MapInsert(held, fetch_add(counter).id, NodeNew(fetch_add(counter).id))
    /\ issued' = Append(issued, fetch_add(counter).id)
    /\ last' = Op("Node::new", fetch_add(counter).id, 0, "ok")
    /\ UNCHANGED <<nodes, root, cache, mutated, panicked, attached, pending, context>>

\* thread t, inside Node::new: let id = COUNTER.fetch_add(1, Ordering::Relaxed)
GenerateId(t, limit) ==
    /\ ~panicked
    /\ pending[t] = None
    /\ counter <= limit
    /\ counter' = fetch_add(counter).counter
    /\ pending' = [pending EXCEPT ![t] = Some(fetch_add(counter).id)]
    /\ issued' = Append(issued, fetch_add(counter).id)
    /\ last' = Op("generate_id", fetch_add(counter).id, t, "ok")
    /\ UNCHANGED <<held, nodes, root, cache, mutated, panicked, attached, context>>

\* thread t, the rest of Node::new: Self { id: generate_id(), .. } is returned
FinishNew(t) ==
    /\ ~panicked
    /\ pending[t] # None
    /\ Cardinality(DOMAIN held) < MaxHeld
    /\ held' = MapInsert(held, pending[t][1], NodeNew(pending[t][1]))
    /\ pending' = [pending EXCEPT ![t] = None]
    /\ last' = Op("Node::new", pending[t][1], t, "ok")
    /\ UNCHANGED <<counter, nodes, root, cache, mutated, panicked, attached, issued, context>>

\* node.set_parent(p) on a node the host still holds
HeldSetParent(h, p) ==
    /\ ~panicked
    /\ h \in DOMAIN held
    /\ held[h].parent # Some(p)
    /\ held' = [held EXCEPT ![h] = set_parent(@, p)]
    /\ last' = Op("set_parent", h, p, "ok")
    /\ UNCHANGED <<counter, nodes, root, cache, mutated, panicked, attached, pending, issued, context>>

\* scene.add_node(parent, node)
AddNode(parent, h) ==
    /\ ~panicked
    /\ h \in DOMAIN held
    /\ LET node == set_parent(held[h], parent)
       IN  IF parent \in DOMAIN nodes
           THEN /\ nodes' = MapInsert([nodes EXCEPT ![parent] = add_child(@, node.id)],
                                      node.id, node)
                /\ last' = Op("add_node", h, parent, "ok")
                /\ panicked' = FALSE
                /\ attached' = Append(attached, node.id)
           ELSE /\ nodes' = nodes
                /\ attached' = attached
                /\ last' = Op("add_node", h, parent, "panic")
                /\ panicked' = TRUE
    /\ held' = MapRemove(held, h)
    /\ UNCHANGED <<counter, root, cache, mutated, pending, issued, context>>

\* scene.remove_node(node_id)
RemoveNode(node_id) ==
    /\ ~panicked
    /\ nodes' = remove_node(nodes, node_id)
    /\ last' = [Op("remove_node", node_id, 0, "ok")
                    EXCEPT !.removed = DOMAIN nodes \ DOMAIN nodes']
    /\ attached' = SelectSeq(attached, LAMBDA id : id \in DOMAIN nodes')
    /\ UNCHANGED <<counter, held, root, cache, mutated, panicked, pending, issued, context>>

\* scene.traverse(|node| log.push(node.id()))
Traverse ==
    /\ ~panicked
    /\ last.op # "traverse"
    /\ last' = [Op("traverse", root, 0, "ok") EXCEPT !.visited = recurse(nodes, root)]
    /\ UNCHANGED <<counter, held, nodes, root, cache, mutated, panicked, attached, pending, issued, context>>

\* scene.get_node_mut(id).unwrap().set_parent(parent)
StoredSetParent(id, parent) ==
    /\ ~panicked
    /\ id \in DOMAIN nodes
    /\ nodes' = [nodes EXCEPT ![id] = set_parent(@, parent)]
    /\ last' = Op("get_node_mut.set_parent", id, parent, "ok")
    /\ UNCHANGED <<counter, held, root, cache, mutated, panicked, attached, pending, issued, context>>

\* scene.get_node_mut(id).unwrap().add_child(child)
StoredAddChild(id, child) ==
    /\ ~panicked
    /\ id \in DOMAIN nodes
    /\ Len(nodes[id].children) < MaxChildren
    /\ nodes' = [nodes EXCEPT ![id] = add_child(@, child)]
    /\ last' = Op("get_node_mut.add_child", id, child, "ok")
    /\ UNCHANGED <<counter, held, root, cache, mutated, panicked, attached, pending, issued, context>>

\* scene.get_node_mut(id).unwrap().remove_child(child)
StoredRemoveChild(id, child) ==
    /\ ~panicked
    /\ id \in DOMAIN nodes
    /\ nodes' = [nodes EXCEPT ![id] = remove_child(@, child)]
    /\ last' = Op("get_node_mut.remove_child", id, child, "ok")
    /\ UNCHANGED <<counter, held, root, cache, mutated, panicked, attached, pending, issued, context>>

\* scene.traverse_mut(visitor)
TraverseMut(visitor) ==
    /\ ~panicked
    /\ LET r == traverse_mut(nodes, root, visitor)
       IN  /\ nodes' = r.ns
           /\ mutated' = IF visitor = "restyle" THEN mutated \cup Range(r.visited)
                          ELSE mutated
           /\ last' = [Op("traverse_mut", root, 0, "ok") EXCEPT !.visited = r.visited]
    /\ UNCHANGED <<counter, held, root, cache, panicked, attached, pending, issued, context>>

\* a Node the host can reach: one it holds, or one stored (scene.get_node_mut)
NodeAt(id) == IF id \in DOMAIN held THEN held[id] ELSE nodes[id]

Store(id, node) ==
    IF id \in DOMAIN held
    THEN held' = [held EXCEPT ![id] = node] /\ nodes' = nodes
    ELSE nodes' = [nodes EXCEPT ![id] = node] /\ held' = held

\* node.set_shape(shape)
SetShape(id, shape) ==
    /\ ~panicked
    /\ id \in DOMAIN held \cup DOMAIN nodes
    /\ Store(id, set_shape(NodeAt(id), shape))
    /\ mutated' = mutated \cup {id}
    /\ last' = Op("set_shape", id, 0, "ok")
    /\ UNCHANGED <<counter, root, cache, panicked, attached, pending, issued, context>>

\* node.clear_shape()
ClearShape(id) ==
    /\ ~panicked
    /\ id \in DOMAIN held \cup DOMAIN nodes
    /\ Store(id, clear_shape(NodeAt(id)))
    /\ mutated' = mutated \cup {id}
    /\ last' = Op("clear_shape", id, 0, "ok")
    /\ UNCHANGED <<counter, root, cache, panicked, attached, pending, issued, context>>

\* node.style_mut().fill = ...
StyleMut(id, style) ==
    /\ ~panicked
    /\ id \in DOMAIN held \cup DOMAIN nodes
    /\ Store(id, style_mut(NodeAt(id), style))
    /\ mutated' = mutated \cup {id}
    /\ last' = Op("style_mut", id, 0, "ok")
    /\ UNCHANGED <<counter, root, cache, panicked, attached, pending, issued, context>>

\* node.transform_mut().translate = ...
TransformMut(id, transform) ==
    /\ ~panicked
    /\ id \in DOMAIN held \cup DOMAIN nodes
    /\ Store(id, transform_mut(NodeAt(id), transform))
    /\ mutated' = mutated \cup {id}
    /\ last' = Op("transform_mut", id, 0, "ok")
    /\ UNCHANGED <<counter, root, cache, panicked, attached, pending, issued, context>>

\* node.set_event_handler(handler)
SetEventHandler(id, handler) ==
    /\ ~panicked
    /\ id \in DOMAIN held \cup DOMAIN nodes
    /\ Store(id, set_event_handler(NodeAt(id), handler))
    /\ last' = Op("set_event_handler", id, 0, "ok")
    /\ UNCHANGED <<counter, root, cache, mutated, panicked, attached, pending, issued, context>>

\* node.clear_event_handler()
ClearEventHandler(id) ==
    /\ ~panicked
    /\ id \in DOMAIN held \cup DOMAIN nodes
    /\ Store(id, clear_event_handler(NodeAt(id)))
    /\ last' = Op("clear_event_handler", id, 0, "ok")
    /\ UNCHANGED <<counter, root, cache, mutated, panicked, attached, pending, issued, context>>

\* node.mark_dirty()
MarkDirty(id) ==
    /\ ~panicked
    /\ id \in DOMAIN held \cup DOMAIN nodes
    /\ Store(id, mark_dirty(NodeAt(id)))
    /\ last' = Op("mark_dirty", id, 0, "ok")
    /\ UNCHANGED <<counter, root, cache, mutated, panicked, attached, pending, issued, context>>

\* node.clear_dirty()
ClearDirty(id) ==
    /\ ~panicked
    /\ id \in DOMAIN held \cup DOMAIN nodes
    /\ Store(id, clear_dirty(NodeAt(id)))
    /\ last' = Op("clear_dirty", id, 0, "ok")
    /\ UNCHANGED <<counter, root, cache, mutated, panicked, attached, pending, issued, context>>

RenderClearingDirty(acquired, failing) ==
    /\ ~panicked
    /\ LET r == render(nodes, root, cache, acquired, failing)
       IN  /\ cache' = r.cache
           /\ nodes' = [id \in DOMAIN nodes |->
                            IF id \in Range(r.tessellated) THEN clear_dirty(nodes[id])
                            ELSE nodes[id]]
           /\ mutated' = IF r.result = "ok" THEN {} ELSE mutated
           /\ last' = [Op("render", 0, 0, r.result) EXCEPT
                          !.tessellated = r.tessellated,
                          !.failed = r.failed,
                          !.draw_list = r.draw_list,
                          !.draws = r.draws]
    /\ UNCHANGED <<counter, held, root, panicked, attached, pending, issued, context>>

\* renderer.render(&scene, &context)
Render(acquired, failing) ==
    /\ ~panicked
    /\ LET r == render(nodes, root, cache, acquired, failing)
       IN  /\ cache' = r.cache
           /\ mutated' = IF r.result = "ok" THEN {} ELSE mutated
           /\ last' = [Op("render", 0, 0, r.result) EXCEPT
                          !.tessellated = r.tessellated,
                          !.failed = r.failed,
                          !.draw_list = r.draw_list,
                          !.draws = r.draws]
    /\ UNCHANGED <<counter, held, nodes, root, panicked, attached, pending, issued, context>>

\* state.resize(size): self.context.resize(size.width, size.height)
Resize(width, height) ==
    /\ ~panicked
    /\ context' = resize(context, width, height).context
    /\ last' = Op("resize", width, height,
                  IF resize(context, width, height).configured
                  THEN "configured" ELSE "not configured")
    /\ UNCHANGED <<counter, held, nodes, root, cache, mutated, panicked, attached, pending, issued>>

Next ==
    \/ NewNode(MaxNodes)
    \/ \E h \in Ids, p \in DOMAIN nodes : HeldSetParent(h, p)
    \/ \E parent \in Ids \cup {NeverCreated}, h \in Ids : AddNode(parent, h)
    \/ \E node_id \in Ids \cup {NeverCreated} : RemoveNode(node_id)
    \/ Traverse

Spec == Init /\ [][Next]_vars

(***************************************************************************)
(* The rendering specification: the host builds, edits, attaches and       *)
(* removes nodes and calls Renderer::render between edits.                 *)
(***************************************************************************)
RenderIds == 1..MaxRenderNodes

\* SpecRender follows the passes in which every tessellation succeeds.
NextRender ==
    \/ NewNode(MaxRenderNodes)
    \/ \E id \in RenderIds, shape \in Shapes : SetShape(id, shape)
    \/ \E id \in RenderIds : ClearShape(id)
    \/ \E id \in RenderIds, style \in Styles : StyleMut(id, style)
    \/ \E id \in RenderIds, transform \in Transforms : TransformMut(id, transform)
    \/ \E id \in RenderIds : MarkDirty(id)
    \/ \E id \in RenderIds : ClearDirty(id)
    \/ \E parent \in RenderIds \cup {NeverCreated}, h \in RenderIds : AddNode(parent, h)
    \/ \E node_id \in RenderIds : RemoveNode(node_id)
    \/ \E acquired \in BOOLEAN : Render(acquired, {})

SpecRender == Init /\ [][NextRender]_vars

(***************************************************************************)
(* The cache specification: the operations draw_scene reads the effect of  *)
(* (tree structure, shape, dirty flag) and the render pass itself, with    *)
(* the rectangle of the demo frame.                                        *)
(***************************************************************************)
\* frame.rs: Shape::Rect(Rect { width: 200.0, height: 100.0 })
FrameShapes == {Rect(200, 100)}

NextCache ==
    \/ NewNode(MaxRenderNodes)
    \/ \E id \in RenderIds, shape \in FrameShapes : SetShape(id, shape)
    \/ \E id \in RenderIds : ClearShape(id)
    \/ \E id \in RenderIds : MarkDirty(id)
    \/ \E id \in RenderIds : ClearDirty(id)
    \/ \E parent \in RenderIds \cup {NeverCreated}, h \in RenderIds : AddNode(parent, h)
    \/ \E node_id \in RenderIds : RemoveNode(node_id)
    \/ \E acquired \in BOOLEAN : Render(acquired, {})

SpecCache == Init /\ [][NextCache]_vars

(***************************************************************************)
(* The tessellation specification: the cache specification with passes in  *)
(* which tessellate_path returns Err for some of the shapes.               *)
(***************************************************************************)
NextTess ==
    \/ NewNode(MaxRenderNodes)
    \/ \E id \in RenderIds, shape \in FrameShapes : SetShape(id, shape)
    \/ \E id \in RenderIds : ClearShape(id)
    \/ \E id \in RenderIds : MarkDirty(id)
    \/ \E id \in RenderIds : ClearDirty(id)
    \/ \E parent \in RenderIds \cup {NeverCreated}, h \in RenderIds : AddNode(parent, h)
    \/ \E node_id \in RenderIds : RemoveNode(node_id)
    \/ \E acquired \in BOOLEAN, failing \in SUBSET RenderIds : Render(acquired, failing)

SpecTess == Init /\ [][NextTess]_vars

(***************************************************************************)
(* The identity specification: several threads build nodes with Node::new, *)
(* each call split at its fetch_add, while nodes are attached and removed. *)
(***************************************************************************)
MaxIssued == 4   \* ids issued by generate_id in the identity specification

IssuedIds == 1..MaxIssued

NextIds ==
    \/ \E t \in Threads : GenerateId(t, MaxIssued)
    \/ \E t \in Threads : FinishNew(t)
    \/ \E parent \in IssuedIds, h \in IssuedIds : AddNode(parent, h)
    \/ \E node_id \in IssuedIds : RemoveNode(node_id)

SpecIds == Init /\ [][NextIds]_vars

(***************************************************************************)
(* The handler specification: nodes are built, given the frame's shape,    *)
(* attached and cleaned, and their event handler is set and cleared.       *)
(***************************************************************************)
NextHandler ==
    \/ NewNode(MaxRenderNodes)
    \/ \E id \in RenderIds, shape \in FrameShapes : SetShape(id, shape)
    \/ \E id \in RenderIds : ClearDirty(id)
    \/ \E parent \in RenderIds, h \in RenderIds : AddNode(parent, h)
    \/ \E id \in RenderIds, handler \in EventHandlers : SetEventHandler(id, handler)
    \/ \E id \in RenderIds : ClearEventHandler(id)

SpecHandler == Init /\ [][NextHandler]_vars

(***************************************************************************)
(* The walk specification: the host builds a scene, walks it with traverse *)
(* and traverse_mut, removes subtrees (the root's too) and renders.        *)
(***************************************************************************)
MaxWalkNodes == 3   \* ids issued by generate_id in the walk specification

WalkIds == 1..MaxWalkNodes

NextWalk ==
    \/ NewNode(MaxWalkNodes)
    \/ \E parent \in WalkIds, h \in WalkIds : AddNode(parent, h)
    \/ \E node_id \in WalkIds : RemoveNode(node_id)
    \/ Traverse
    \/ \E visitor \in Visitors : TraverseMut(visitor)
    \/ \E acquired \in BOOLEAN : Render(acquired, {})

SpecWalk == Init /\ [][NextWalk]_vars

(***************************************************************************)
(* The link specification: next to add_node and remove_node the host calls *)
(* the public link setters of Node on nodes it reaches with get_node_mut.  *)
(***************************************************************************)
MaxLinkNodes == 2   \* ids issued by generate_id in the link and dangling-child specifications

LinkIds == 1..MaxLinkNodes

NextLinks ==
    \/ NewNode(MaxLinkNodes)
    \/ \E parent \in LinkIds, h \in LinkIds : AddNode(parent, h)
    \/ \E node_id \in LinkIds : RemoveNode(node_id)
    \/ \E id \in LinkIds, parent \in LinkIds : StoredSetParent(id, parent)
    \/ \E id \in LinkIds, child \in LinkIds : StoredAddChild(id, child)
    \/ \E id \in LinkIds, child \in LinkIds : StoredRemoveChild(id, child)

SpecLinks == Init /\ [][NextLinks]_vars

(***************************************************************************)
(* The dangling-child specification: the walk specification without the    *)
(* renderer, in which the host also pushes, with Node::add_child on a      *)
(* stored node, an id that the scene does not store.                       *)
(***************************************************************************)
NextDangling ==
    \/ NewNode(MaxLinkNodes)
    \/ \E parent \in LinkIds, h \in LinkIds : AddNode(parent, h)
    \/ \E node_id \in LinkIds : RemoveNode(node_id)
    \/ \E id \in LinkIds : StoredAddChild(id, NeverCreated)
    \/ Traverse
    \/ \E visitor \in Visitors : TraverseMut(visitor)

SpecDangling == Init /\ [][NextDangling]_vars

(***************************************************************************)
(* The transform specification: nodes are built, given the frame's shape,  *)
(* moved with transform_mut, cleaned, attached and rendered.               *)
(***************************************************************************)
NextTransform ==
    \/ NewNode(MaxRenderNodes)
    \/ \E id \in RenderIds, shape \in FrameShapes : SetShape(id, shape)
    \/ \E id \in RenderIds, transform \in Transforms : TransformMut(id, transform)
    \/ \E id \in RenderIds : ClearDirty(id)
    \/ \E parent \in RenderIds, h \in RenderIds : AddNode(parent, h)
    \/ \E acquired \in BOOLEAN : Render(acquired, {})

SpecTransform == Init /\ [][NextTransform]_vars

(***************************************************************************)
(* The resize specification: the window is created with any size and the   *)
(* host forwards every WindowEvent::Resized to GpuContext::resize.         *)
(***************************************************************************)
NextResize ==
    \E width \in Sizes, height \in Sizes : Resize(width, height)

SpecResize == InitResize /\ [][NextResize]_vars

(***************************************************************************)
(* Vocabulary of the claims, computed from the stored links alone.         *)
(***************************************************************************)
ChildrenOf(ns, S) == UNION {Range(ns[p].children) : p \in S \cap DOMAIN ns}

RECURSIVE Closure(_, _)
Closure(ns, S) ==
    LET T == S \cup ChildrenOf(ns, S)
    IN  IF T = S THEN S ELSE Closure(ns, T)

\* every id below id in the children relation
Descendants(ns, id) == Closure(ns, ChildrenOf(ns, {id}))

\* every stored id the root reaches through children lists
Reachable(ns, r) == IF r \in DOMAIN ns THEN {r} \cup (Descendants(ns, r) \cap DOMAIN ns) ELSE {}

ListedUnder(ns, id) == {p \in DOMAIN ns : id \in Range(ns[p].children)}

Pos(s, x) == CHOOSE i \in 1..Len(s) : s[i] = x

(***************************************************************************)
(* C1: after every add_node / remove_node, every stored non-root node has  *)
(* a stored parent that lists it exactly once, every listed child is       *)
(* stored, no id is listed under two parents and no node is its own        *)
(* descendant.                                                             *)
(***************************************************************************)
C1_StructuralInvariants ==
    /\ \A id \in DOMAIN nodes : nodes[id].id = id
    /\ \A id \in DOMAIN nodes \ {root} :
          /\ nodes[id].parent # None
          /\ nodes[id].parent[1] \in DOMAIN nodes
          /\ Count(nodes[nodes[id].parent[1]].children, id) = 1
    /\ \A p \in DOMAIN nodes : Range(nodes[p].children) \subseteq DOMAIN nodes
    /\ \A id \in DOMAIN nodes : Cardinality(ListedUnder(nodes, id)) <= 1
    /\ \A id \in DOMAIN nodes : id \notin Descendants(nodes, id)

C1_Witness ==
    /\ last.op = "remove_node"
    /\ Cardinality(last.removed) >= 2
    /\ root \in DOMAIN nodes
    /\ nodes[root].children # <<>>

(***************************************************************************)
(* C2 as stated: after every operation root() names a stored node that has *)
(* no parent.                                                              *)
(***************************************************************************)
C2_RootStoredNoParent ==
    root \in DOMAIN nodes /\ nodes[root].parent = None

(***************************************************************************)
(* C2 amended: root() names a stored node that has no parent, unless       *)
(* remove_node(root()) has run, after which the scene stores no node.      *)
(***************************************************************************)
C2_RootStoredUnlessRemoved ==
    \/ root \in DOMAIN nodes /\ nodes[root].parent = None
    \/ DOMAIN nodes = {}

C2_Witness ==
    /\ last.op = "remove_node"
    /\ last.id = root
    /\ Cardinality(last.removed) >= 3
    /\ DOMAIN nodes = {}

(***************************************************************************)
(* C3: add_node with a parent that is not stored returns a MissingParent   *)
(* error, does not panic and leaves the scene unchanged.                   *)
(***************************************************************************)
C3_MissingParentIsRecoverable ==
    [][\A parent \in Ids \cup {NeverCreated}, h \in Ids :
          (parent \notin DOMAIN nodes /\ AddNode(parent, h))
              => (last'.result = "MissingParent" /\ ~panicked' /\ nodes' = nodes)]_vars

(***************************************************************************)
(* C4: add_node with a node whose parent is already Some is rejected with  *)
(* AlreadyAttached and leaves the scene unchanged.                         *)
(***************************************************************************)
C4_AlreadyAttachedIsRejected ==
    [][\A parent \in Ids \cup {NeverCreated}, h \in Ids :
          (h \in DOMAIN held /\ held[h].parent # None /\ AddNode(parent, h))
              => (last'.result = "AlreadyAttached" /\ nodes' = nodes)]_vars

(***************************************************************************)
(* C5: remove_node(id) of a stored id leaves neither id nor any descendant *)
(* of id in the node map, and id is no longer listed by its former parent. *)
(***************************************************************************)
C5_RemoveNodeRemovesSubtree ==
    [][\A id \in DOMAIN nodes :
          RemoveNode(id) =>
              /\ \A d \in {id} \cup Descendants(nodes, id) : d \notin DOMAIN nodes'
              /\ \A p \in DOMAIN nodes' : id \notin Range(nodes'[p].children)
              /\ nodes[id].parent # None =>
                    \/ nodes[id].parent[1] \notin DOMAIN nodes'
                    \/ Count(nodes'[nodes[id].parent[1]].children, id) = 0]_vars

C5_Witness ==
    /\ last.op = "remove_node"
    /\ last.id # root
    /\ Cardinality(last.removed) >= 3
    /\ root \in DOMAIN nodes

(***************************************************************************)
(* C6: traverse calls the visitor exactly once for every node reachable    *)
(* from the root and for no other, a node before its descendants, and the  *)
(* children of a node in the order they were attached.                     *)
(***************************************************************************)
C6_TraversePreOrder ==
    last.op = "traverse" =>
        LET v == last.visited
        IN  /\ \A i, j \in 1..Len(v) : v[i] = v[j] => i = j
            /\ Range(v) = Reachable(nodes, root)
            /\ \A i, j \in 1..Len(v) : v[j] \in Descendants(nodes, v[i]) => i < j
            /\ \A i, j \in 1..Len(attached) :
                  (/\ i < j
                   /\ attached[i] \in Range(v)
                   /\ attached[j] \in Range(v)
                   /\ nodes[attached[i]].parent = nodes[attached[j]].parent)
                      => Pos(v, attached[i]) < Pos(v, attached[j])

\* R, A under R, B under A, C under A: the visit order is [R, A, B, C];
\* and a walk in which a later-created sibling was attached, and visited, first
C6_Witness ==
    /\ last.op = "traverse"
    /\ \E r, a, b, c \in Ids :
          /\ last.visited = <<r, a, b, c>>
          /\ root = r
          /\ nodes[r].children = <<a>>
          /\ nodes[a].children = <<b, c>>
          /\ c < b

(***************************************************************************)
(* C7: a node is dirty right after Node::new and right after every write   *)
(* to its shape, style or transform, whatever the flag was before.         *)
(***************************************************************************)
C7_DirtyAfterMutation ==
    last.op \in {"Node::new", "set_shape", "clear_shape", "style_mut", "transform_mut"}
        => NodeAt(last.id).dirty

(***************************************************************************)
(* C8: right after a render pass, every node whose geometry the pass       *)
(* tessellated and cached is not dirty.                                    *)
(***************************************************************************)
C8_CleanAfterRefresh ==
    (last.op = "render" /\ last.result = "ok")
        => \A id \in Range(last.tessellated) : ~nodes[id].dirty

(***************************************************************************)
(* C9: a render pass does not tessellate a shaped node that has a cache    *)
(* entry and was not written since the previous pass, and tessellates      *)
(* exactly once a shaped node that was written since the previous pass.    *)
(***************************************************************************)
C9_RefreshExactlyWhenMutated ==
    [][Render(TRUE, {}) =>
          \A id \in Reachable(nodes, root) :
              nodes[id].shape # None =>
                  /\ (id \in DOMAIN cache /\ id \notin mutated)
                        => Count(last'.tessellated, id) = 0
                  /\ id \in mutated => Count(last'.tessellated, id) = 1]_vars

(***************************************************************************)
(* C10: a render pass neither tessellates nor overwrites the cache entry   *)
(* of a node that is not dirty and already has a cache entry.              *)
(***************************************************************************)
C10_CleanCachedNodeIsReused ==
    [][Render(TRUE, {}) =>
          \A id \in DOMAIN nodes :
              (nodes[id].shape # None /\ ~nodes[id].dirty /\ id \in DOMAIN cache)
                  => /\ Count(last'.tessellated, id) = 0
                     /\ id \in DOMAIN cache'
                     /\ cache'[id] = cache[id]]_vars

\* a pass drew a clean node from its cache entry without tessellating it
C10_Witness ==
    /\ last.op = "render"
    /\ last.result = "ok"
    /\ \E id \in Range(last.draw_list) :
          /\ id \notin Range(last.tessellated)
          /\ ~nodes[id].dirty
          /\ id \in DOMAIN cache
          /\ \E d \in Range(last.draws) : d.id = id

(***************************************************************************)
(* C11: after a completed render pass every key of the cache is the id of  *)
(* a stored node, so no entry of a removed node survives the pass.         *)
(***************************************************************************)
C11_CacheKeysAreStored ==
    (last.op = "render" /\ last.result = "ok") => DOMAIN cache \subseteq DOMAIN nodes

(***************************************************************************)
(* C12: a node whose tessellation fails in a pass is not put on the draw   *)
(* list of that pass and no cache entry is written for it.                 *)
(***************************************************************************)
C12_FailedTessellationIsSkipped ==
    [][\A failing \in SUBSET RenderIds :
          Render(TRUE, failing) =>
              \A id \in last'.failed :
                  /\ id \notin Range(last'.draw_list)
                  /\ id \in DOMAIN cache' => (id \in DOMAIN cache /\ cache'[id] = cache[id])]_vars

(***************************************************************************)
(* C13: when the surface frame cannot be acquired, render returns without  *)
(* a panic, tessellates nothing, issues no draw and leaves the cache and   *)
(* the scene as they were.                                                 *)
(***************************************************************************)
C13_SurfaceErrorLeavesCache ==
    [][Render(FALSE, {}) =>
          /\ cache' = cache
          /\ last'.draws = <<>>
          /\ last'.draw_list = <<>>
          /\ last'.tessellated = <<>>
          /\ ~panicked'
          /\ nodes' = nodes]_vars

\* the frame was refused while the cache held an entry and a stored shaped
\* node was waiting for a refresh
C13_Witness ==
    /\ last.op = "render"
    /\ last.result = "surface_error"
    /\ cache # EmptyMap
    /\ \E id \in Reachable(nodes, root) :
          nodes[id].shape # None /\ needs_refresh(nodes[id], cache)

(***************************************************************************)
(* C14: in a completed pass the draw submissions are, one each and in      *)
(* pre-order, the nodes that carry a shape; a node without a shape is not  *)
(* on the draw list and its cache entry is neither created nor written.    *)
(***************************************************************************)
C14_DrawsAreShapedNodesInOrder ==
    [][Render(TRUE, {}) =>
              LET shaped == SelectSeq(recurse(nodes, root),
                                      LAMBDA id : nodes[id].shape # None)
              IN  /\ last'.draw_list = shaped
                  /\ Len(last'.draws) = Len(shaped)
                  /\ \A i \in 1..Len(shaped) : last'.draws[i].id = shaped[i]
                  /\ \A id \in DOMAIN nodes :
                        nodes[id].shape = None =>
                            /\ id \notin Range(last'.draw_list)
                            /\ (id \in DOMAIN cache') = (id \in DOMAIN cache)
                            /\ id \in DOMAIN cache => cache'[id] = cache[id]]_vars

\* a pass drew a shaped parent and then its shaped child
C14_Witness ==
    /\ last.op = "render"
    /\ last.result = "ok"
    /\ Len(last.draws) >= 2
    /\ nodes[last.draws[2].id].parent = Some(last.draws[1].id)

(***************************************************************************)
(* C15: the geometry of every draw submission of a pass is the             *)
(* tessellation of the shape the node carries at that pass.                *)
(***************************************************************************)
C15_DrawnGeometryIsCurrent ==
    (last.op = "render" /\ last.result = "ok") =>
        \A i \in 1..Len(last.draws) :
            last.draws[i].vertex_buffer = path(nodes[last.draws[i].id].shape[1])

(***************************************************************************)
(* C16: every value generate_id returns differs from every value returned  *)
(* before, also when Node::new calls of several threads interleave; the    *)
(* values are issued in strictly increasing order starting at 1, above the *)
(* reserved 0; and the id of a removed node is never issued again: every   *)
(* id a node ever had is an issued one, and the next value to be issued    *)
(* lies above all of them.                                                 *)
(***************************************************************************)
PendingIds == {pending[t][1] : t \in {u \in Threads : pending[u] # None}}

C16_IdsUniqueIncreasing ==
    /\ issued[1] = 1
    /\ \A i \in 1..Len(issued) : issued[i] > 0 /\ issued[i] < counter
    /\ \A i \in 1..Len(issued) - 1 : issued[i] < issued[i + 1]
    /\ \A i, j \in 1..Len(issued) : i # j => issued[i] # issued[j]
    /\ DOMAIN nodes \cup DOMAIN held \cup PendingIds \subseteq Range(issued)
    /\ \A id \in DOMAIN nodes : nodes[id].id = id
    /\ \A id \in DOMAIN held : held[id].id = id
    /\ \A t, u \in Threads : t # u /\ pending[t] # None => pending[t] # pending[u]

\* two Node::new calls are between their fetch_add and their return, the later
\* fetch_add came after a node was removed from the scene
C16_Witness ==
    /\ last.op = "generate_id"
    /\ \A t \in Threads : pending[t] # None
    /\ \E id \in Range(issued) :
          id \notin DOMAIN nodes \cup DOMAIN held \cup PendingIds

(***************************************************************************)
(* C17: set_event_handler and clear_event_handler leave the node's dirty   *)
(* flag, id, parent, children, transform, shape and style as they were     *)
(* (and write nothing but the handler of that one node).                   *)
(***************************************************************************)
SameButHandler(before, after) ==
    /\ after.dirty = before.dirty
    /\ after.id = before.id
    /\ after.parent = before.parent
    /\ after.children = before.children
    /\ after.transform = before.transform
    /\ after.shape = before.shape
    /\ after.style = before.style

C17_HandlerSettersKeepNode ==
    [][\A id \in RenderIds :
          ((\E handler \in EventHandlers : SetEventHandler(id, handler))
              \/ ClearEventHandler(id)) =>
             /\ DOMAIN nodes' = DOMAIN nodes /\ DOMAIN held' = DOMAIN held
             /\ SameButHandler(NodeAt(id), NodeAt(id)')
             /\ \A j \in DOMAIN nodes \ {id} : nodes'[j] = nodes[j]
             /\ \A j \in DOMAIN held \ {id} : held'[j] = held[j]]_vars

\* a handler was set on, or cleared from, a stored, shaped, clean node while
\* another stored node carries a handler
C17_Witness ==
    /\ last.op \in {"set_event_handler", "clear_event_handler"}
    /\ last.id \in DOMAIN nodes
    /\ nodes[last.id].parent # None
    /\ nodes[last.id].shape # None
    /\ ~nodes[last.id].dirty
    /\ last.op = "set_event_handler" => nodes[last.id].on_event = Some("handler_b")
    /\ \E j \in DOMAIN nodes \ {last.id} : nodes[j].on_event = Some("handler_a")

(***************************************************************************)
(* C18: remove_node(root()) does not fail and leaves the scene without a   *)
(* stored node; on such a scene traverse and traverse_mut call the visitor *)
(* zero times, and a render pass that acquired its frame completes without *)
(* a panic, with an empty draw list and no draw.                           *)
(***************************************************************************)
C18_RootRemovalLeavesEmptyScene ==
    [][/\ RemoveNode(root) => (~panicked' /\ DOMAIN nodes' = {})
       /\ (root \notin DOMAIN nodes /\ Traverse) => last'.visited = <<>>
       /\ (root \notin DOMAIN nodes /\ \E visitor \in Visitors : TraverseMut(visitor))
              => (last'.visited = <<>> /\ nodes' = nodes)
       /\ (root \notin DOMAIN nodes /\ Render(TRUE, {}))
              => /\ last'.result = "ok"
                 /\ ~panicked'
                 /\ last'.draw_list = <<>>
                 /\ last'.draws = <<>>
                 /\ last'.tessellated = <<>>]_vars

\* a pass completed on a scene whose root was removed together with two
\* nodes that earlier passes had drawn
C18_Witness ==
    /\ last.op = "render"
    /\ last.result = "ok"
    /\ root \notin DOMAIN nodes
    /\ DOMAIN nodes = {}
    /\ Cardinality(DOMAIN cache) >= 2

(***************************************************************************)
(* C20: with a visitor that writes no parent or children link,             *)
(* traverse_mut hands the visitor the same sequence of ids as traverse on  *)
(* the same scene, and afterwards the scene stores, for every visited      *)
(* node, what the visitor made of it, and every other node as it was.      *)
(***************************************************************************)
C20_TraverseMutSameOrderAndStored ==
    [][\A visitor \in Visitors :
          TraverseMut(visitor) =>
              /\ last'.visited = recurse(nodes, root)
              /\ DOMAIN nodes' = DOMAIN nodes
              /\ \A id \in DOMAIN nodes :
                    nodes'[id] = IF id \in Range(recurse(nodes, root))
                                 THEN callback(visitor, nodes[id])
                                 ELSE nodes[id]]_vars

\* a walk restyled a root with two children stored out of id order, or a
\* root with a child and a grandchild
C20_Witness ==
    /\ last.op = "traverse_mut"
    /\ Len(last.visited) >= 3
    /\ \A id \in Range(last.visited) :
          nodes[id].shape # None /\ nodes[id].style = StyleFilled
    /\ \/ last.visited[2] > last.visited[3]
       \/ nodes[last.visited[3]].parent = Some(last.visited[2])

(***************************************************************************)
(* C19: no operation of a Node reached through get_node_mut changes that   *)
(* node's parent or children, so that the structural invariants of the     *)
(* scene hold after every such operation.                                  *)
(***************************************************************************)
C19_NodeOpsKeepLinks ==
    [][\A id \in LinkIds, x \in LinkIds :
          (StoredSetParent(id, x) \/ StoredAddChild(id, x) \/ StoredRemoveChild(id, x)) =>
              /\ nodes'[id].parent = nodes[id].parent
              /\ nodes'[id].children = nodes[id].children
              /\ C1_StructuralInvariants']_vars

(***************************************************************************)
(* C21: add_node with a stored parent stores the node with                 *)
(* parent = Some(parent), appends its id at the end of the parent's        *)
(* children list, the ids already listed keeping their places, and changes *)
(* no other node of the scene.                                             *)
(***************************************************************************)
C21_AddNodeAppendsChild ==
    [][\A parent \in Ids, h \in Ids :
          (last'.op = "add_node" /\ parent \in DOMAIN nodes /\ AddNode(parent, h)) =>
              /\ DOMAIN nodes' = DOMAIN nodes \cup {h}
              /\ nodes'[h] = [held[h] EXCEPT !.parent = Some(parent)]
              /\ nodes'[parent].children = nodes[parent].children \o <<h>>
              /\ nodes'[parent] = [nodes[parent] EXCEPT !.children = nodes'[parent].children]
              /\ \A j \in DOMAIN nodes \ {parent} : nodes'[j] = nodes[j]
              /\ ~panicked']_vars

\* a node was attached behind two siblings that are listed out of id order,
\* under a parent that is not the root
C21_Witness ==
    /\ last.op = "add_node"
    /\ last.result = "ok"
    /\ last.parent \in DOMAIN nodes
    /\ last.parent # root
    /\ LET children == nodes[last.parent].children
       IN  /\ Len(children) = 3
           /\ children[3] = last.id
           /\ children[1] > children[2]

(***************************************************************************)
(* C22: remove_node(id) of an id that is not stored changes nothing; of a  *)
(* stored id it leaves every node outside id's subtree as it was, except   *)
(* that id's parent, when stored, loses exactly the one entry id from its  *)
(* children list, the other entries keeping their order; when id is the    *)
(* root no children list of a surviving node changes.                      *)
(***************************************************************************)
C22_RemoveNodeTouchesOnlyParent ==
    [][\A id \in Ids \cup {NeverCreated} :
          (last'.op = "remove_node" /\ RemoveNode(id)) =>
              IF id \notin DOMAIN nodes THEN nodes' = nodes
              ELSE LET subtree == {id} \cup Descendants(nodes, id)
                   IN  /\ DOMAIN nodes' = DOMAIN nodes \ subtree
                       /\ \A j \in DOMAIN nodes \ subtree :
                             IF nodes[id].parent = Some(j)
                             THEN /\ Count(nodes[j].children, id) = 1
                                  /\ Len(nodes'[j].children) = Len(nodes[j].children) - 1
                                  /\ nodes'[j].children =
                                        SelectSeq(nodes[j].children, LAMBDA c : c # id)
                                  /\ nodes'[j] =
                                        [nodes[j] EXCEPT !.children = nodes'[j].children]
                             ELSE nodes'[j] = nodes[j]]_vars

\* a stored node other than the root was removed together with its child,
\* and the root still lists two children, out of id order
C22_Witness ==
    /\ last.op = "remove_node"
    /\ last.id # root
    /\ last.id \in last.removed
    /\ Cardinality(last.removed) = 2
    /\ root \in DOMAIN nodes
    /\ Len(nodes[root].children) = 2
    /\ nodes[root].children[1] > nodes[root].children[2]

(***************************************************************************)
(* C23: a child id that a children list holds and the scene does not store *)
(* is a no-op for traverse and traverse_mut: the visitor is called for     *)
(* stored nodes only, nothing panics, and the walk is the walk of the      *)
(* scene with the missing ids struck from every children list, so it goes  *)
(* on with the next sibling.                                               *)
(***************************************************************************)
\* the scene with every id that is not stored struck from the children lists
Prune(ns) ==
    [id \in DOMAIN ns |->
        [ns[id] EXCEPT !.children = SelectSeq(@, LAMBDA c : c \in DOMAIN ns)]]

C23_MissingChildIsSkipped ==
    [][/\ Traverse =>
             /\ Range(last'.visited) \subseteq DOMAIN nodes
             /\ last'.visited = recurse(Prune(nodes), root)
             /\ ~panicked'
       /\ \A visitor \in Visitors :
             TraverseMut(visitor) =>
                /\ Range(last'.visited) \subseteq DOMAIN nodes
                /\ last'.visited = recurse(Prune(nodes), root)
                /\ DOMAIN nodes' = DOMAIN nodes
                /\ \A id \in DOMAIN nodes :
                      nodes'[id] = IF id \in Range(last'.visited)
                                   THEN callback(visitor, nodes[id])
                                   ELSE nodes[id]
                /\ ~panicked']_vars

\* a walk went through a children list that holds a missing id in front of
\* a stored one, and visited the stored one
C23_Witness ==
    /\ last.op \in {"traverse", "traverse_mut"}
    /\ \E p \in Range(last.visited) :
          \E i, j \in 1..Len(nodes[p].children) :
              /\ i < j
              /\ nodes[p].children[i] \notin DOMAIN nodes
              /\ nodes[p].children[j] \in Range(last.visited)

(***************************************************************************)
(* C24: on every scene built by add_node and remove_node, traverse,        *)
(* traverse_mut (with a visitor that writes no children list) and          *)
(* remove_node terminate: no recursion is cut, each makes one call for     *)
(* every node it visits or removes (and one call in all when there is no   *)
(* such node), and the number of nested frames never exceeds the depth of  *)
(* the tree plus one.                                                      *)
(***************************************************************************)
RECURSIVE Height(_, _)
\* the number of levels below the set S of stored nodes
Height(ns, S) ==
    LET below == ChildrenOf(ns, S) \cap DOMAIN ns
    IN  IF below = {} THEN 0 ELSE 1 + Height(ns, below)

\* the depth of the tree: the number of links from the root to its deepest node
TreeDepth(ns, r) == Height(ns, {r} \cap DOMAIN ns)

C24_RecursionBoundedByDepth ==
    [][/\ Traverse =>
             LET s == recurse_stack(Stack(nodes), nodes, root, 1)
             IN  /\ ~s.cut
                 /\ s.calls = Max(1, Len(last'.visited))
                 /\ s.calls = Max(1, Cardinality(Reachable(nodes, root)))
                 /\ s.deepest <= TreeDepth(nodes, root) + 1
       /\ \A visitor \in Visitors :
             TraverseMut(visitor) =>
                LET s == recurse_mut_stack(Stack(nodes), root, visitor, 1)
                IN  /\ ~s.cut
                    /\ s.ns = nodes'
                    /\ s.calls = Max(1, Len(last'.visited))
                    /\ s.calls = Max(1, Cardinality(Reachable(nodes, root)))
                    /\ s.deepest <= TreeDepth(nodes, root) + 1
       /\ \A id \in WalkIds :
             RemoveNode(id) =>
                LET s == remove_node_stack(Stack(nodes), id, 1)
                IN  /\ ~s.cut
                    /\ s.ns = nodes'
                    /\ s.calls = Max(1, Cardinality(last'.removed))
                    /\ s.deepest <= TreeDepth(nodes, root) + 1]_vars

\* a walk went down a chain root, child, grandchild: three nested frames
C24_Witness ==
    /\ last.op \in {"traverse", "traverse_mut"}
    /\ Len(last.visited) = 3
    /\ nodes[last.visited[2]].parent = Some(last.visited[1])
    /\ nodes[last.visited[3]].parent = Some(last.visited[2])
    /\ TreeDepth(nodes, root) = 2

(***************************************************************************)
(* C25: after every render pass that acquired its frame, every shaped node *)
(* reachable from the root has a cache entry, and every id of the pass's   *)
(* draw list had one when its draw was issued: the pass issued one draw    *)
(* for every entry of the draw list, in its order.                         *)
(***************************************************************************)
C25_DrawListIsCached ==
    (last.op = "render" /\ last.result = "ok") =>
        /\ \A id \in Reachable(nodes, root) :
              nodes[id].shape # None => id \in DOMAIN cache
        /\ Range(last.draw_list) \subseteq DOMAIN cache
        /\ Len(last.draws) = Len(last.draw_list)
        /\ \A i \in 1..Len(last.draw_list) :
              /\ last.draws[i].id = last.draw_list[i]
              /\ last.draws[i].vertex_buffer = cache[last.draw_list[i]].vertex_buffer

\* a pass drew two nodes, one from an entry it made in this pass and one
\* from an entry an earlier pass had made
C25_Witness ==
    /\ last.op = "render"
    /\ last.result = "ok"
    /\ Len(last.draw_list) = 2
    /\ Len(last.tessellated) = 1
    /\ Range(last.tessellated) \subseteq Range(last.draw_list)

(***************************************************************************)
(* C26: Renderer::render never modifies the Scene: the stored nodes, every *)
(* parent and children link and every node's shape, style, transform and   *)
(* dirty flag are after the call what they were before it, whether or not  *)
(* the frame was acquired.                                                 *)
(***************************************************************************)
C26_RenderLeavesScene ==
    [][(\E acquired \in BOOLEAN : Render(acquired, {})) =>
          /\ root' = root
          /\ DOMAIN nodes' = DOMAIN nodes
          /\ \A id \in DOMAIN nodes :
                /\ nodes'[id].parent = nodes[id].parent
                /\ nodes'[id].children = nodes[id].children
                /\ nodes'[id].shape = nodes[id].shape
                /\ nodes'[id].style = nodes[id].style
                /\ nodes'[id].transform = nodes[id].transform
                /\ nodes'[id].dirty = nodes[id].dirty
          /\ nodes' = nodes
          /\ held' = held]_vars

\* a pass tessellated a dirty node, and the node is dirty after the pass
C26_Witness ==
    /\ last.op = "render"
    /\ last.result = "ok"
    /\ \E id \in Range(last.tessellated) :
          /\ id # root
          /\ nodes[id].dirty
          /\ nodes[id].shape # None
          /\ id \in DOMAIN cache

(***************************************************************************)
(* C27: what a render pass produces does not depend on any transform: the  *)
(* pass over the scene and the pass over any scene that differs from it    *)
(* only in transform values (of a node, of its ancestors, of any node)     *)
(* tessellate the same nodes from the same shapes, leave the same cache    *)
(* and issue the same draws in the same order.                             *)
(***************************************************************************)
\* the scene ns with the transform of every node id replaced by t[id]
Retransform(ns, t) == [id \in DOMAIN ns |-> transform_mut(ns[id], t[id])]

SizeIsConfigPositive(ctx) ==
    /\ ctx.size = <<ctx.config.width, ctx.config.height>>
    /\ ctx.config.width > 0
    /\ ctx.config.height > 0

C28_ResizeIgnoresZero ==
    [][\A width \in Sizes, height \in Sizes :
          Resize(width, height) =>
              /\ (width = 0 \/ height = 0) =>
                    /\ context' = context
                    /\ last'.result = "not configured"
              /\ (width > 0 /\ height > 0) =>
                    /\ context'.config.width = width
                    /\ context'.config.height = height
                    /\ context'.size = <<width, height>>
                    /\ context'.surface = [width |-> width, height |-> height]
                    /\ last'.result = "configured"
                    /\ SizeIsConfigPositive(context')
              /\ SizeIsConfigPositive(context) => SizeIsConfigPositive(context')
              /\ ~panicked']_vars

\* a call with a zero dimension came after a call with both positive had
\* resized the context
C28_Witness ==
    /\ last.op = "resize"
    /\ last.id = 0
    /\ last.parent > 0
    /\ last.result = "not configured"
    /\ SizeIsConfigPositive(context)
    /\ context.size = <<MaxSize, 1>>

====
